---- MODULE Spec2Model ----
(***************************************************************************)
(* A model of the SPH simulator (src/src/sim/SPH.h) and of the boundary-   *)
(* particle generators (src/src/geometry/ParticleGenerator.cpp).           *)
(*                                                                         *)
(* Numbers.  The program computes in single-precision floats; the model    *)
(* computes in exact integers:                                             *)
(*   lengths     in length units (the simulator's scenes read them as mm), *)
(*   times       in microseconds,                                          *)
(*   velocities  in length units per millisecond,                          *)
(*   densities   in units of 100 kg/m^3.                                   *)
(* Vectors are tuples <<x, y, z>>.  The inputs are chosen so that every    *)
(* division the model performs is exact (see ExactArithmetic).             *)
(***************************************************************************)
EXTENDS Integers, Sequences, FiniteSets, TLC

VARIABLES
    \* ---- ParticleGenerator::generateSurfaceParticles(box, radius) ----
    gBox,               \* the box argument
    gRadius,            \* the particleRadius argument
    gCalled,            \* the function has returned
    gResult,            \* the Result it returned
    \* ---- ParticleGenerator::generateSurfaceParticles(mesh, radius, cells) ----
    mMesh,              \* density * area of each triangle of the mesh argument
    mI,                 \* the triangles the seeding loop has done
    mPositions,         \* positions.size()
    mSeeded,            \* the last triangle done: its n, its draw, its samples
    \* ---- the scene handed to SPH::SPH ----
    scene,
    \* ---- class SPH ----
    particleRadius,     \* _particleRadius
    particleDiameter,   \* _particleDiameter
    kernelRadius,       \* _kernelRadius
    kernelRadius2,      \* _kernelRadius2
    restDensity,        \* _restDensity
    particleMass,       \* _particleMass
    gravity,            \* _gravity
    wcsphDt,            \* wcsph.dt
    maxTimestep,        \* _maxTimestep
    bounds,             \* _bounds
    fluidPositions,     \* _fluidPositions
    fluidVelocities,    \* _fluidVelocities
    fluidNormals,       \* _fluidNormals: the update call that computed the entry
    fluidForces,        \* _fluidForces
    fluidDensities,     \* _fluidDensities: the update call that computed the entry
    fluidPressures,     \* _fluidPressures: the update call that computed the entry
    fluidGrid,          \* _fluidGrid
    boundaryPositions,  \* _boundaryPositions
    boundaryNormals,    \* _boundaryNormals
    t,                  \* _t
    \* ---- the control state of the constructor and of update(dt) ----
    pc,                 \* "new", "idle", or the stage update() is in
    dt,                 \* the argument of the running update(dt)
    steps,              \* the number of update calls made
    pending,            \* the tasks of the running iterate() that have not finished
    task,               \* the local state of each task of the running iterate()
    \* ---- what the tasks have accessed ----
    reads,              \* per task of the running iterate(): the entries it read
    writes,             \* per task of the running iterate(): the entries it wrote
    written,            \* the entries written since the running update() began
    entryPositions,     \* _fluidPositions as the running iterate() was entered
    gridOrder           \* the order the last grid update put the particles in

meshVars == <<mMesh, mI, mPositions, mSeeded>>

genVars == <<gBox, gRadius, gCalled, gResult, meshVars>>

paramVars == <<scene, particleRadius, particleDiameter, kernelRadius, kernelRadius2,
               restDensity, particleMass, gravity, wcsphDt, maxTimestep, bounds>>

fluidVars == <<fluidPositions, fluidVelocities, fluidNormals, fluidForces,
               fluidDensities, fluidPressures, fluidGrid>>

boundaryVars == <<boundaryPositions, boundaryNormals>>

ctlVars == <<t, pc, dt, steps, pending, task>>

logVars == <<reads, writes, written, entryPositions, gridOrder>>

simVars == <<paramVars, fluidVars, boundaryVars, ctlVars, logVars>>

vars == <<genVars, simVars>>

Axes == 1..3

Zero3 == <<0, 0, 0>>

Abs(a) == IF a < 0 THEN -a ELSE a

Min2(a, b) == IF a < b THEN a ELSE b

\* std::floor(a / b) and std::ceil(a / b) of a float quotient, b # 0
FloorDiv(a, b) == IF b > 0 THEN a \div b ELSE (-a) \div (-b)

CeilDiv(a, b) == -FloorDiv(-a, b)

VAdd(u, v) == [a \in Axes |-> u[a] + v[a]]

VSub(u, v) == [a \in Axes |-> u[a] - v[a]]

VScale(k, u) == [a \in Axes |-> k * u[a]]

Dot(u, v) == u[1] * v[1] + u[2] * v[2] + u[3] * v[3]

\* Box3f::extents()
Extents(box) == VSub(box.max, box.min)

\* The concatenation of the sequences ss[1], ss[2], ..., in that order.  A loop
\* for (int k = 1; k < n; ++k) { body } is Flatten([k \in 1..(n - 1) |-> body]).
RECURSIVE Flatten(_)
Flatten(ss) == IF Len(ss) = 0 THEN <<>> ELSE Head(ss) \o Flatten(Tail(ss))

(***************************************************************************)
(* ParticleGenerator::generateSurfaceParticles(const Box3f &, float)       *)
(*                                                                         *)
(* A generated particle is [idx, normal]: idx is the lattice index         *)
(* (x, y, z) handed to addParticle, which stores the position              *)
(* origin + idx * d with d = extents / (nx, ny, nz); normal is the vector  *)
(* it stores, before .normalized() (which keeps every component's sign).   *)
(***************************************************************************)
\* a generator whose normals have the opposite sign
normalScaleFlipped == 0 + 1

\* const float normalScale = -1.f
normalScale == -1

addParticle(x, y, z, n) ==
    LET particle == [idx |-> <<x, y, z>>, normal |-> VScale(normalScale, n)]
    IN  << particle >>

\* int nx = std::ceil(extents.x() / (2.f * particleRadius)), per axis
Counts(box, radius) ==
    [a \in Axes |-> CeilDiv(Extents(box)[a], 2 * radius)]

\* XY planes whose x loop runs to nx inclusive, onto the edges x = nx
XYPlanesInclusive(nx, ny, nz) ==
    Flatten([x \in 1..nx |-> Flatten([y \in 1..(ny - 1) |->
        addParticle(x, y, 0, <<0, 0, 1>>) \o addParticle(x, y, nz, <<0, 0, -1>>)])])

\* XY planes: for x in [1, nx), y in [1, ny), the faces z = 0 and z = nz
XYPlanes(nx, ny, nz) ==
    Flatten([x \in 1..(nx - 1) |-> Flatten([y \in 1..(ny - 1) |->
        addParticle(x, y, 0, <<0, 0, 1>>) \o addParticle(x, y, nz, <<0, 0, -1>>)])])

XZPlanes(nx, ny, nz) ==
    Flatten([x \in 1..(nx - 1) |-> Flatten([z \in 1..(nz - 1) |->
        addParticle(x, 0, z, <<0, 1, 0>>) \o addParticle(x, ny, z, <<0, -1, 0>>)])])

YZPlanes(nx, ny, nz) ==
    Flatten([y \in 1..(ny - 1) |-> Flatten([z \in 1..(nz - 1) |->
        addParticle(0, y, z, <<1, 0, 0>>) \o addParticle(nx, y, z, <<-1, 0, 0>>)])])

XBorders(nx, ny, nz) ==
    Flatten([x \in 1..(nx - 1) |->
           addParticle(x, 0,  0,  <<0,  1,  1>>)
        \o addParticle(x, ny, 0,  <<0, -1,  1>>)
        \o addParticle(x, 0,  nz, <<0,  1, -1>>)
        \o addParticle(x, ny, nz, <<0, -1, -1>>)])

YBorders(nx, ny, nz) ==
    Flatten([y \in 1..(ny - 1) |->
           addParticle(0,  y, 0,  << 1, 0,  1>>)
        \o addParticle(nx, y, 0,  <<-1, 0,  1>>)
        \o addParticle(0,  y, nz, << 1, 0, -1>>)
        \o addParticle(nx, y, nz, <<-1, 0, -1>>)])

ZBorders(nx, ny, nz) ==
    Flatten([z \in 1..(nz - 1) |->
           addParticle(0,  0,  z, << 1,  1, 0>>)
        \o addParticle(nx, 0,  z, <<-1,  1, 0>>)
        \o addParticle(0,  ny, z, << 1, -1, 0>>)
        \o addParticle(nx, ny, z, <<-1, -1, 0>>)])

\* bit k of c, for c in 0..7: (c >> k) & 1
Bit(c, k) == (c \div (2 ^ k)) % 2

\* for (int c = 0; c < 8; ++c): the k-th pass has c = k - 1
Corners(nx, ny, nz) ==
    Flatten([k \in 1..8 |->
        LET x == Bit(k - 1, 0)
            y == Bit(k - 1, 1)
            z == Bit(k - 1, 2)
        IN  addParticle(IF x = 1 THEN 0 ELSE nx,
                        IF y = 1 THEN 0 ELSE ny,
                        IF z = 1 THEN 0 ELSE nz,
                        <<IF x = 1 THEN 1 ELSE -1,
                          IF y = 1 THEN 1 ELSE -1,
                          IF z = 1 THEN 1 ELSE -1>>)])

generateSurfaceParticles(box, radius) ==
    LET n  == Counts(box, radius)
        ps ==    XYPlanes(n[1], n[2], n[3])
              \o XZPlanes(n[1], n[2], n[3])
              \o YZPlanes(n[1], n[2], n[3])
              \o XBorders(n[1], n[2], n[3])
              \o YBorders(n[1], n[2], n[3])
              \o ZBorders(n[1], n[2], n[3])
              \o Corners(n[1], n[2], n[3])
    IN  [positions |-> [k \in 1..Len(ps) |-> ps[k].idx],
         normals   |-> [k \in 1..Len(ps) |-> ps[k].normal]]

(***************************************************************************)
(* ParticleGenerator::generateSurfaceParticles(const Mesh &, float, int):  *)
(* the loop that seeds the triangles                                       *)
(*                                                                         *)
(* A triangle is given by n = density * area, its expected number of       *)
(* seeds, and a draw of rng.nextFloat() by its value in [0, 1); both are   *)
(* counted in parts of SeedDenominator, so n = 6 is 1.5 when the           *)
(* denominator is 4.  The points samplePoint() emits are left out: the     *)
(* model counts them.                                                      *)
(***************************************************************************)
SeedDenominator == 4

\* int ni = int(std::floor(n))
ni(n) == n \div SeedDenominator

\* if (rng.nextFloat() < n): the test of the additional sample, on the draw u
ExtraSample(u, n) == u < n

\* one pass of the loop over the triangles, on the triangle of index mI: ni
\* calls of samplePoint(), then the draw u and the call it decides
SeedTriangle(u) ==
    /\ mI < Len(mMesh)
    /\ LET n       == mMesh[mI + 1]
           samples == ni(n) + (IF ExtraSample(u, n) THEN 1 ELSE 0)
       IN  /\ mPositions' = mPositions + samples
           /\ mSeeded' = [done |-> TRUE, n |-> n, u |-> u, samples |-> samples]
    /\ mI' = mI + 1
    /\ UNCHANGED <<mMesh, gBox, gRadius, gCalled, gResult>>
    /\ UNCHANGED simVars

\* ---- the bounds of the simulator's runs ----
\* update() is called at most MaxSteps times
MaxSteps == 2

\* the accelerations are multiples of AccUnit length units per millisecond^2;
\* a collision halves a velocity component, at most once per step
AccUnit == 100 * (2 ^ MaxSteps)

\* the accelerations the pair forces add: none, or one unit along x or y
PairAccelerations ==
    {Zero3} \cup {VScale(AccUnit, u) :
                    u \in {<<1, 0, 0>>, <<-1, 0, 0>>, <<0, 1, 0>>, <<0, -1, 0>>}}

(***************************************************************************)
(* class SPH: the constructor                                              *)
(*                                                                         *)
(* Units of the simulator's numbers: a length unit is 10^-5 of a scene     *)
(* unit (the scene's metre), so that the 1e-5f of the coincidence nudge is *)
(* 1; a mass unit is 10^-6 kg; a density unit is 1000 kg/m^3; times are in *)
(* microseconds; velocities in length units per millisecond.               *)
(***************************************************************************)
\* wcsph.cs = 10.f (m/s)
WcsphCs == 10

\* wcsph.viscosity = 0.005f, in thousandths
WcsphViscosityMilli == 5

\* _maxTimestep = 1e-3f, in microseconds
MaxTimestepClamp == 1000

\* r2 > 0.00001f, in squared length units
PairEpsilon2 == 100000

\* Vector3f(1e-5f), in length units
NudgeStep == 1

Nudge == <<NudgeStep, NudgeStep, NudgeStep>>

Cube(a) == a * a * a

Sqr(a) == a * a

\* _particleMass = _restDensity / cube(1.f / _particleDiameter): 1000 kg/m^3 times
\* (10^-5 m)^3 is 10^-12 kg, so in mass units it is density * diameter^3 / 10^6;
\* the scenes' diameters are multiples of 100
MassOf(density, diameter) == density * Cube(diameter \div 100)

\* 0.25f * _kernelRadius / (_particleMass * 9.81f), in microseconds:
\* 0.25 * (h * 10^-5) / (m * 10^-6 * 9.81) s = (250000000 / 981) * h / m us
GravityTimestep(h, m) == FloorDiv((250000000 \div 981) * h, m)

\* 0.4f * _kernelRadius / (wcsph.cs * (1.f + 0.6f * wcsph.viscosity)), in
\* microseconds: 0.4 * (h * 10^-5) / (cs * (1 + 0.0006 * viscosityMilli)) s
SoundTimestep(h) == FloorDiv(40000 * h, WcsphCs * (10000 + 6 * WcsphViscosityMilli))

\* wcsph.dt = std::min(..., ...)
CflTimestep(h, m) == Min2(GravityTimestep(h, m), SoundTimestep(h))

\* voxelizeBox: the lattice points x * d of the box, z outermost and x innermost
voxelizeBox(box, d) ==
    LET lo == [a \in Axes |-> CeilDiv(box.min[a], d)]
        hi == [a \in Axes |-> FloorDiv(box.max[a], d)]
    IN  Flatten([kz \in 1..(hi[3] - lo[3] + 1) |->
        Flatten([ky \in 1..(hi[2] - lo[2] + 1) |->
                [kx \in 1..(hi[1] - lo[1] + 1) |->
                    <<(lo[1] + kx - 1) * d, (lo[2] + ky - 1) * d, (lo[3] + kz - 1) * d>>]])])

\* voxelizeSphere: the lattice points of the sphere's bounding box within radius
voxelizeSphere(pos, radius, d) ==
    LET all == voxelizeBox([min |-> [a \in Axes |-> pos[a] - radius],
                            max |-> [a \in Axes |-> pos[a] + radius]], d)
    IN  SelectSeq(all, LAMBDA p : Dot(VSub(p, pos), VSub(p, pos)) <= Sqr(radius))

\* Grid::init(bounds, cellSize) (Grid.h is not part of the sources; after the
\* documented design: origin = bounds.min, dimensions = ceil(extent / cellSize))
GridInit(box, cellSize) ==
    [origin   |-> box.min,
     cellSize |-> cellSize,
     size     |-> [a \in Axes |-> CeilDiv(Extents(box)[a], cellSize)],
     cell     |-> <<>>]

Particles == 1..Len(fluidPositions)

\* The configuration is one the simulator is made for: a positive particle
\* radius and a world box of positive extent on every axis.
ValidConfig(s) ==
    /\ s.particleRadius > 0
    /\ \A a \in Axes : s.bounds.min[a] < s.bounds.max[a]

\* SPH::SPH(const Scene &scene)
Construct ==
    /\ pc = "new"
    /\ LET r      == scene.particleRadius
           d      == 2 * r
           h      == 4 * r
           m      == MassOf(scene.restDensity, d)
           fluid  == Flatten([k \in 1..Len(scene.boxes) |->
                                 voxelizeBox(scene.boxes[k], d)])
                     \o Flatten([k \in 1..Len(scene.spheres) |->
                                 voxelizeSphere(scene.spheres[k].position,
                                                scene.spheres[k].radius, d)])
           result == generateSurfaceParticles(scene.bounds, r)
           n      == Len(fluid)
       IN  /\ particleRadius' = r
           /\ particleDiameter' = d
           /\ kernelRadius' = h
           /\ kernelRadius2' = Sqr(h)
           /\ restDensity' = scene.restDensity
           /\ particleMass' = m
           /\ gravity' = scene.gravity
           /\ wcsphDt' = CflTimestep(h, m)
           /\ maxTimestep' = MaxTimestepClamp
           /\ bounds' = scene.bounds
           /\ fluidGrid' = GridInit(scene.bounds, h)
           /\ fluidPositions' = fluid
           /\ boundaryPositions' = result.positions
           /\ boundaryNormals' = result.normals
           /\ fluidVelocities' = [i \in 1..n |-> Zero3]
           /\ fluidNormals' = [i \in 1..n |-> 0]
           /\ fluidForces' = [i \in 1..n |-> Zero3]
           /\ fluidDensities' = [i \in 1..n |-> 0]
           /\ fluidPressures' = [i \in 1..n |-> 0]
    /\ pc' = "idle"
    /\ UNCHANGED <<scene, t, dt, steps, pending, task, logVars>>
    /\ UNCHANGED genVars

(***************************************************************************)
(* SPH::update(dt)                                                         *)
(*                                                                         *)
(* The kernels (Kernel.h) are not part of the sources and their sums are   *)
(* real numbers: the values of a density, a pressure and a normal are      *)
(* abstracted to the update call that computed them, and the acceleration  *)
(* the pair forces add to gravity is some member of PairAccelerations.     *)
(***************************************************************************)
Stages == <<"grid", "density", "normals", "forces", "integrate", "collide">>

ParallelStages == {"density", "normals", "forces", "integrate"}

\* an update() that goes from the density stage straight to the forces
StageAfterSkippingNormals(s) ==
    CASE s = "grid"      -> "density"
      [] s = "density"   -> "forces"
      [] s = "normals"   -> "forces"
      [] s = "forces"    -> "integrate"
      [] s = "integrate" -> "collide"
      [] s = "collide"   -> "idle"

\* the stage update() enters after stage s ("idle": update returns)
StageAfter(s) ==
    CASE s = "grid"      -> "density"
      [] s = "density"   -> "normals"
      [] s = "normals"   -> "forces"
      [] s = "forces"    -> "integrate"
      [] s = "integrate" -> "collide"
      [] s = "collide"   -> "idle"

NoTask == [at |-> "wait", cand |-> <<>>, k |-> 0, touched |-> FALSE, tmp |-> Zero3]

NoLog == [i \in Particles |-> {}]

Entry(array, i) == <<array, i>>

\* update(dt) is entered: _t += dt
UpdateCall(d) ==
    /\ pc = "idle"
    /\ ValidConfig([particleRadius |-> particleRadius, bounds |-> bounds])
    /\ steps < MaxSteps
    /\ t' = t + d
    /\ dt' = d
    /\ steps' = steps + 1
    /\ pc' = "grid"
    /\ written' = {}
    /\ UNCHANGED <<paramVars, fluidVars, boundaryVars, pending, task, reads, writes,
                   entryPositions, gridOrder>>
    /\ UNCHANGED genVars

\* the cell of point p: floor((p - origin) / cellSize), clamped to the grid
\* (Grid.h is not part of the sources; after the documented design)
CellOf(grid, p) ==
    [a \in Axes |->
        LET c == FloorDiv(p[a] - grid.origin[a], grid.cellSize)
        IN  IF c < 0 THEN 0 ELSE IF c > grid.size[a] - 1 THEN grid.size[a] - 1 ELSE c]

\* L(x) = ix + cx * (iy + cy * iz)
LinearCell(grid, c) == c[1] + grid.size[1] * (c[2] + grid.size[2] * c[3])

\* the counting sort's permutation: order[k] is the index of the particle that
\* comes k-th, by cell and, within a cell, by index
SortedOrder(keys) ==
    LET n == Len(keys)
        rank(i) == 1 + Cardinality({j \in 1..n :
                        keys[j] < keys[i] \/ (keys[j] = keys[i] /\ j < i)})
    IN  [k \in 1..n |-> CHOOSE i \in 1..n : rank(i) = k]

Permute(array, order) == [k \in 1..Len(order) |-> array[order[k]]]

\* _fluidGrid.update(_fluidPositions, swap): the swap callback swaps positions
\* and velocities
GridUpdate ==
    /\ pc = "grid"
    /\ LET cells == [i \in Particles |-> CellOf(fluidGrid, fluidPositions[i])]
           order == SortedOrder([i \in Particles |-> LinearCell(fluidGrid, cells[i])])
       IN  /\ fluidGrid' = [fluidGrid EXCEPT !.cell = Permute(cells, order)]
           /\ fluidPositions' = Permute(fluidPositions, order)
           /\ fluidVelocities' = Permute(fluidVelocities, order)
           /\ gridOrder' = order
    /\ pc' = StageAfter(pc)
    /\ pending' = Particles
    /\ task' = [i \in Particles |-> NoTask]
    /\ reads' = NoLog
    /\ writes' = NoLog
    /\ entryPositions' = fluidPositions'
    /\ UNCHANGED <<paramVars, fluidNormals, fluidForces, fluidDensities, fluidPressures,
                   boundaryVars, t, dt, steps, written>>
    /\ UNCHANGED genVars

\* Grid::lookup(p, radius, visit): the indices stored in the 27 cells around the
\* cell of p, in ascending order (the particles are stored by ascending cell)
Lookup(grid, p) ==
    LET c == CellOf(grid, p)
    IN  SelectSeq([j \in 1..Len(grid.cell) |-> j],
                  LAMBDA j : \A a \in Axes : Abs(grid.cell[j][a] - c[a]) <= 1)

SquaredNorm(r) == Dot(r, r)

\* iterateNeighbours: the candidates j with r2 < _kernelRadius2
Neighbours(i) ==
    SelectSeq(Lookup(fluidGrid, fluidPositions[i]),
              LAMBDA j : SquaredNorm(VSub(fluidPositions[i], fluidPositions[j]))
                            < kernelRadius2)

PositionsOf(js) == {Entry("positions", js[k]) : k \in 1..Len(js)}

\* a task of the running iterate() has run to its end
Finish(i, rd, wr) ==
    /\ pending' = pending \ {i}
    /\ reads' = [reads EXCEPT ![i] = @ \cup rd]
    /\ writes' = [writes EXCEPT ![i] = @ \cup wr]
    /\ written' = written \cup wr
    /\ UNCHANGED <<entryPositions, gridOrder>>

\* computeDensity, the task of particle i
DensityTask(i) ==
    /\ pc = "density"
    /\ i \in pending
    /\ fluidDensities' = [fluidDensities EXCEPT ![i] = steps]
    /\ fluidPressures' = [fluidPressures EXCEPT ![i] = steps]
    /\ Finish(i,
              {Entry("positions", i)}
                 \cup PositionsOf(Lookup(fluidGrid, fluidPositions[i])),
              {Entry("densities", i), Entry("pressures", i)})
    /\ UNCHANGED <<paramVars, fluidPositions, fluidVelocities, fluidNormals, fluidForces,
                   fluidGrid, boundaryVars, t, pc, dt, steps, task>>
    /\ UNCHANGED genVars

\* computeNormals, the task of particle i
NormalsTask(i) ==
    /\ pc = "normals"
    /\ i \in pending
    /\ fluidNormals' = [fluidNormals EXCEPT ![i] = steps]
    /\ Finish(i,
              {Entry("positions", i)}
                 \cup PositionsOf(Lookup(fluidGrid, fluidPositions[i]))
                 \cup {Entry("densities", Neighbours(i)[k]) : k \in 1..Len(Neighbours(i))},
              {Entry("normals", i)})
    /\ UNCHANGED <<paramVars, fluidPositions, fluidVelocities, fluidForces, fluidDensities,
                   fluidPressures, fluidGrid, boundaryVars, t, pc, dt, steps, task>>
    /\ UNCHANGED genVars

\* computeForces, the task of particle i: _fluidGrid.lookup(_fluidPositions[i], ...)
\* is entered.  The visit of j = i does nothing (if (i != j)) and is left out.
ForceBegin(i) ==
    /\ pc = "forces"
    /\ i \in pending
    /\ task[i].at = "wait"
    /\ task' = [task EXCEPT ![i] =
                   [at      |-> "visit",
                    cand    |-> SelectSeq(Lookup(fluidGrid, fluidPositions[i]),
                                          LAMBDA j : j # i),
                    k       |-> 1,
                    touched |-> FALSE,
                    tmp     |-> Zero3]]
    /\ reads' = [reads EXCEPT ![i] = @ \cup {Entry("positions", i)}]
    /\ UNCHANGED <<paramVars, fluidVars, boundaryVars, t, pc, dt, steps, pending,
                   writes, written, entryPositions, gridOrder>>
    /\ UNCHANGED genVars

\* what the pair (i, j) contributes reads, when r2 is in range
PairReads(i, j) ==
    {Entry(array, x) : array \in {"velocities", "normals", "densities", "pressures"},
                       x \in {i, j}}

\* computeForces, the task of particle i visits its next candidate j: the tests
\* on r2 = |x_i - x_j|^2
ForceVisit(i) ==
    /\ pc = "forces"
    /\ task[i].at = "visit"
    /\ task[i].k <= Len(task[i].cand)
    /\ LET j  == task[i].cand[task[i].k]
           r2 == SquaredNorm(VSub(fluidPositions[i], fluidPositions[j]))
           rd == {Entry("positions", i), Entry("positions", j)}
       IN  IF r2 < kernelRadius2 /\ r2 > PairEpsilon2
           THEN /\ task' = [task EXCEPT ![i].k = @ + 1, ![i].touched = TRUE]
                /\ reads' = [reads EXCEPT ![i] = @ \cup rd \cup PairReads(i, j)]
           ELSE IF r2 = 0
           THEN /\ task' = [task EXCEPT ![i].at = "load"]
                /\ reads' = [reads EXCEPT ![i] = @ \cup rd]
           ELSE /\ task' = [task EXCEPT ![i].k = @ + 1]
                /\ reads' = [reads EXCEPT ![i] = @ \cup rd]
    /\ UNCHANGED <<paramVars, fluidVars, boundaryVars, t, pc, dt, steps, pending,
                   writes, written, entryPositions, gridOrder>>
    /\ UNCHANGED genVars

\* _fluidPositions[j] += Vector3f(1e-5f): the load
ForceNudgeLoad(i) ==
    /\ pc = "forces"
    /\ task[i].at = "load"
    /\ LET j == task[i].cand[task[i].k]
       IN  /\ task' = [task EXCEPT ![i].at = "store", ![i].tmp = fluidPositions[j]]
           /\ reads' = [reads EXCEPT ![i] = @ \cup {Entry("positions", j)}]
    /\ UNCHANGED <<paramVars, fluidVars, boundaryVars, t, pc, dt, steps, pending,
                   writes, written, entryPositions, gridOrder>>
    /\ UNCHANGED genVars

\* _fluidPositions[j] += Vector3f(1e-5f): the store
ForceNudgeStore(i) ==
    /\ pc = "forces"
    /\ task[i].at = "store"
    /\ LET j == task[i].cand[task[i].k]
       IN  /\ fluidPositions' = [fluidPositions EXCEPT ![j] = VAdd(task[i].tmp, Nudge)]
           /\ writes' = [writes EXCEPT ![i] = @ \cup {Entry("positions", j)}]
           /\ written' = written \cup {Entry("positions", j)}
           /\ UNCHANGED <<entryPositions, gridOrder>>
    /\ task' = [task EXCEPT ![i].at = "visit", ![i].k = @ + 1, ![i].tmp = Zero3]
    /\ UNCHANGED <<paramVars, fluidVelocities, fluidNormals, fluidForces, fluidDensities,
                   fluidPressures, fluidGrid, boundaryVars, t, pc, dt, steps, pending,
                   reads>>
    /\ UNCHANGED genVars

\* computeForces, the task of particle i after its last candidate:
\* force += _particleMass * _gravity; _fluidForces[i] = force
ForceFinish(i, pairAcceleration) ==
    /\ pc = "forces"
    /\ task[i].at = "visit"
    /\ task[i].k > Len(task[i].cand)
    /\ pairAcceleration \in (IF task[i].touched THEN PairAccelerations ELSE {Zero3})
    /\ fluidForces' = [fluidForces EXCEPT ![i] =
                          VAdd(VScale(particleMass, pairAcceleration),
                               VScale(particleMass, gravity))]
    /\ task' = [task EXCEPT ![i] = NoTask]
    /\ Finish(i, {}, {Entry("forces", i)})
    /\ UNCHANGED <<paramVars, fluidPositions, fluidVelocities, fluidNormals,
                   fluidDensities, fluidPressures, fluidGrid, boundaryVars, t, pc, dt,
                   steps>>
    /\ UNCHANGED genVars

\* a * dt, with dt in microseconds and a per millisecond
TimesDt(v, d) == [a \in Axes |-> (v[a] * d) \div 1000]

\* the dt update() integrates with: the argument, as passed
StepDt == dt

\* Vector3f a = _fluidForces[i] * invM, with invM = 1.f / _particleMass
Acceleration(i) == [a \in Axes |-> fluidForces[i][a] \div particleMass]

\* the Integrate stage, the task of particle i
IntegrateTask(i) ==
    /\ pc = "integrate"
    /\ i \in pending
    /\ LET v == VAdd(fluidVelocities[i], TimesDt(Acceleration(i), StepDt))
       IN  /\ fluidVelocities' = [fluidVelocities EXCEPT ![i] = v]
           /\ fluidPositions' = [fluidPositions EXCEPT ![i] = VAdd(@, TimesDt(v, StepDt))]
    /\ Finish(i,
              {Entry("forces", i), Entry("velocities", i), Entry("positions", i)},
              {Entry("velocities", i), Entry("positions", i)})
    /\ UNCHANGED <<paramVars, fluidNormals, fluidForces, fluidDensities, fluidPressures,
                   fluidGrid, boundaryVars, t, pc, dt, steps, task>>
    /\ UNCHANGED genVars

\* an iterate() that returns as soon as one task has finished
JoinedAfterFirst == pending # Particles

Joined == pending = {}

IterateReturns ==
    /\ pc \in ParallelStages
    /\ Joined
    /\ pc' = StageAfter(pc)
    /\ pending' = IF StageAfter(pc) \in ParallelStages THEN Particles ELSE {}
    /\ task' = [i \in Particles |-> NoTask]
    /\ reads' = NoLog
    /\ writes' = NoLog
    /\ entryPositions' = fluidPositions
    /\ UNCHANGED gridOrder
    /\ UNCHANGED <<paramVars, fluidVars, boundaryVars, t, dt, steps, written>>
    /\ UNCHANGED genVars

UnitVector(a) == [b \in Axes |-> IF b = a THEN 1 ELSE 0]

\* a handler that reflects the velocity and leaves the position where it is
HandlerWithoutMove(s, n, d) ==
    [p |-> s.p,
     v |-> VSub(s.v, VScale((3 * Dot(s.v, n)) \div 2, n))]

\* a handler with restitution c = 1: the normal velocity is mirrored in full
HandlerElastic(s, n, d) ==
    [p |-> VAdd(s.p, VScale(d, n)),
     v |-> VSub(s.v, VScale(2 * Dot(s.v, n), n))]

\* the collision handler of update(): with c = 0.5f,
\* _fluidPositions[i] += n * d; _fluidVelocities[i] -= (1 + c) * v.dot(n) * n
Handler(s, n, d) ==
    [p |-> VAdd(s.p, VScale(d, n)),
     v |-> VSub(s.v, VScale((3 * Dot(s.v, n)) \div 2, n))]

\* computeCollisions: the two tests of axis a, on the particle as the handler
\* left it (p is a reference to _fluidPositions[i])
CollideAxis(s, a) ==
    LET s1 == IF s.p[a] < bounds.min[a]
              THEN Handler(s, UnitVector(a), bounds.min[a] - s.p[a])
              ELSE s
    IN  IF s1.p[a] > bounds.max[a]
        THEN Handler(s1, VScale(-1, UnitVector(a)), s1.p[a] - bounds.max[a])
        ELSE s1

CollideParticle(s) == CollideAxis(CollideAxis(CollideAxis(s, 1), 2), 3)

\* the Collision stage: computeCollisions(handler), a serial loop
Collide ==
    /\ pc = "collide"
    /\ LET after == [i \in Particles |->
                        CollideParticle([p |-> fluidPositions[i],
                                         v |-> fluidVelocities[i]])]
       IN  /\ fluidPositions' = [i \in Particles |-> after[i].p]
           /\ fluidVelocities' = [i \in Particles |-> after[i].v]
    /\ pc' = StageAfter(pc)
    /\ UNCHANGED <<paramVars, fluidNormals, fluidForces, fluidDensities, fluidPressures,
                   fluidGrid, boundaryVars, t, dt, steps, pending, task, logVars>>
    /\ UNCHANGED genVars

\* ---- the generator's inputs ----
NegExtent == 2

MaxExtent == 5

\* the unit box of the particle-count scenario, at particle radius 1
\* (a unit box at radius 0.05 is a box of extent 20 at radius 1)
UnitExtent == 20

GenExtents == ((0 - NegExtent)..MaxExtent) \cup {UnitExtent}

GenRadii == {-1, 1, 2}

GenOrigin == <<-1, 0, 2>>

NoResult == [positions |-> <<>>, normals |-> <<>>]

(***************************************************************************)
(* The scenes and the calls the host makes                                 *)
(***************************************************************************)
Box(lo, hi) == [min |-> lo, max |-> hi]

PointBox(p) == Box(p, p)

World == Box(<<0, 0, 0>>, <<1600, 800, 800>>)

SmallWorld == Box(<<0, 0, 0>>, <<400, 400, 400>>)

\* a scene with the particle radius 200 (2 mm), the default rest density, a
\* gravity of one acceleration step downwards, and no liquid
BaseScene ==
    [particleRadius |-> 200,
     restDensity    |-> 1,
     gravity        |-> <<0, -AccUnit, 0>>,
     bounds         |-> World,
     boxes          |-> <<>>,
     spheres        |-> <<>>]

\* two particles within the kernel radius of each other
PairScene == [BaseScene EXCEPT !.boxes = <<Box(<<400, 400, 400>>, <<800, 400, 400>>)>>]

\* two liquid boxes that overlap in one lattice point: two coincident particles
CoincidentScene ==
    [BaseScene EXCEPT !.boxes = <<Box(<<300, 300, 300>>, <<500, 500, 500>>),
                                  Box(<<400, 400, 400>>, <<700, 700, 700>>)>>]

\* a liquid box that reaches out of the world box
OutsideScene == [BaseScene EXCEPT !.boxes = <<Box(<<-400, 400, 400>>, <<0, 400, 400>>)>>]

\* one particle that begins above the ceiling of the world box, where gravity
\* pulls it back towards the box
CeilingScene == [BaseScene EXCEPT !.boxes = <<PointBox(<<400, 1600, 400>>)>>]

\* two particles listed against the order of their cells
SwapScene ==
    [BaseScene EXCEPT !.boxes = <<PointBox(<<1200, 400, 400>>),
                                  PointBox(<<400, 800, 400>>)>>]

\* one liquid sphere, of one lattice point
SphereScene ==
    [BaseScene EXCEPT !.spheres = << [position |-> <<800, 400, 400>>, radius |-> 100] >>]

\* no liquid, and a particle radius of 6.5 mm
EmptyScene == [BaseScene EXCEPT !.particleRadius = 650]

\* a particle radius of 1 mm
FineScene ==
    [BaseScene EXCEPT !.particleRadius = 100, !.bounds = SmallWorld,
                      !.boxes = <<PointBox(<<200, 200, 200>>)>>]

ValidScenes ==
    {PairScene, CoincidentScene, OutsideScene, CeilingScene, SwapScene, SphereScene,
     EmptyScene, FineScene}

\* a negative particle radius; a world box of no height; a world box whose
\* corners are exchanged
NegativeRadiusScene ==
    [BaseScene EXCEPT !.particleRadius = -200, !.boxes = <<PointBox(<<0, 0, 0>>)>>]

FlatWorldScene ==
    [PairScene EXCEPT !.bounds = Box(<<0, 0, 0>>, <<1600, 0, 800>>)]

InvertedWorldScene ==
    [PairScene EXCEPT !.bounds = Box(<<1600, 800, 800>>, <<0, 0, 0>>)]

InvalidScenes == {NegativeRadiusScene, FlatWorldScene, InvertedWorldScene}

Scenes == ValidScenes \cup InvalidScenes

\* the host calls update(maxTimestep()), or update with twice that
DtChoices == {MaxTimestepClamp, 2 * MaxTimestepClamp}

\* the state of an SPH object that has not been constructed
NotConstructed ==
    /\ particleRadius = 0
    /\ particleDiameter = 0
    /\ kernelRadius = 0
    /\ kernelRadius2 = 0
    /\ restDensity = 0
    /\ particleMass = 0
    /\ gravity = Zero3
    /\ wcsphDt = 0
    /\ maxTimestep = 0
    /\ bounds = Box(Zero3, Zero3)
    /\ fluidPositions = <<>>
    /\ fluidVelocities = <<>>
    /\ fluidNormals = <<>>
    /\ fluidForces = <<>>
    /\ fluidDensities = <<>>
    /\ fluidPressures = <<>>
    /\ fluidGrid = GridInit(Box(Zero3, Zero3), 1)
    /\ boundaryPositions = <<>>
    /\ boundaryNormals = <<>>
    /\ t = 0
    /\ pc = "new"
    /\ dt = 0
    /\ steps = 0
    /\ pending = {}
    /\ task = <<>>
    /\ reads = <<>>
    /\ writes = <<>>
    /\ written = {}
    /\ entryPositions = <<>>
    /\ gridOrder = <<>>

\* the generator's specification leaves the simulator alone
SimUnused == scene = BaseScene /\ NotConstructed

NoSeed == [done |-> FALSE, n |-> 0, u |-> 0, samples |-> 0]

MeshUnused ==
    /\ mMesh = <<>>
    /\ mI = 0
    /\ mPositions = 0
    /\ mSeeded = NoSeed

BoxUnused ==
    /\ gBox = Box(Zero3, Zero3)
    /\ gRadius = 1
    /\ gCalled = FALSE
    /\ gResult = NoResult

GenUnused == BoxUnused /\ MeshUnused

Init == scene \in Scenes /\ NotConstructed /\ GenUnused

Next ==
    \/ Construct
    \/ \E d \in DtChoices : UpdateCall(d)
    \/ GridUpdate
    \/ \E i \in Particles : DensityTask(i)
    \/ \E i \in Particles : NormalsTask(i)
    \/ \E i \in Particles : ForceBegin(i)
    \/ \E i \in Particles : ForceVisit(i)
    \/ \E i \in Particles : ForceNudgeLoad(i)
    \/ \E i \in Particles : ForceNudgeStore(i)
    \/ \E i \in Particles : \E a \in PairAccelerations : ForceFinish(i, a)
    \/ \E i \in Particles : IntegrateTask(i)
    \/ IterateReturns
    \/ Collide

Spec == Init /\ [][Next]_vars

InitGen ==
    /\ gBox \in {[min |-> GenOrigin, max |-> VAdd(GenOrigin, e)] :
                    e \in GenExtents \X GenExtents \X GenExtents}
    /\ gRadius \in GenRadii
    /\ gCalled = FALSE
    /\ gResult = NoResult
    /\ MeshUnused
    /\ SimUnused

Generate ==
    /\ ~gCalled
    /\ gCalled' = TRUE
    /\ gResult' = generateSurfaceParticles(gBox, gRadius)
    /\ UNCHANGED <<gBox, gRadius, meshVars>>
    /\ UNCHANGED simVars

NextGen == Generate

SpecGen == InitGen /\ [][NextGen]_vars

\* ---- the mesh generator's inputs ----
\* a triangle expects at most MaxSeeds seeds; a mesh has at most MaxTriangles
MaxSeeds == 2

MaxTriangles == 2

SeedCounts == 0..(MaxSeeds * SeedDenominator)

\* the values of rng.nextFloat(): [0, 1)
Draws == 0..(SeedDenominator - 1)

Meshes == UNION {[1..k -> SeedCounts] : k \in 1..MaxTriangles}

InitMesh ==
    /\ mMesh \in Meshes
    /\ mI = 0
    /\ mPositions = 0
    /\ mSeeded = NoSeed
    /\ BoxUnused
    /\ SimUnused

NextMesh == \E u \in Draws : SeedTriangle(u)

SpecMesh == InitMesh /\ [][NextMesh]_vars

(***************************************************************************)
(*                              The claims                                 *)
(***************************************************************************)

\* ---- the arithmetic of the model is exact ----
\* Every division the actions perform leaves no remainder: dt is a whole number
\* of milliseconds, a force is a multiple of the particle mass, and a velocity
\* the collision handler halves is even.
ExactArithmetic ==
    /\ dt % 1000 = 0
    /\ pc = "integrate" =>
          \A i \in Particles : \A a \in Axes : fluidForces[i][a] % particleMass = 0
    /\ pc = "collide" =>
          \A i \in Particles : \A a \in Axes : fluidVelocities[i][a] % 2 = 0

Inside(p, box) == \A a \in Axes : box.min[a] <= p[a] /\ p[a] <= box.max[a]

\* C1: after every call of update(dt), every fluid particle lies within the
\* world bounds in each of the three coordinates.
C1_BoxConfinement ==
    (pc = "idle" /\ steps > 0) => \A i \in Particles : Inside(fluidPositions[i], bounds)

\* a step has ended in the scene whose liquid began outside the world box, and
\* another has ended with a particle thrown back from the floor
C1_Witness ==
    /\ pc = "idle"
    /\ steps > 0
    /\ scene = OutsideScene
    /\ \E i \in Particles : fluidPositions[i][1] = bounds.min[1]
    /\ \E i \in Particles : fluidPositions[i][2] = bounds.min[2] /\ fluidVelocities[i][2] > 0

\* what the Integrate task of particle i makes of its velocity and position when
\* it integrates with the timestep d
IntegratedWith(i, d) ==
    LET v == VAdd(fluidVelocities[i], TimesDt(Acceleration(i), d))
    IN  /\ fluidVelocities'[i] = v
        /\ fluidPositions'[i] = VAdd(fluidPositions[i], TimesDt(v, d))

\* C2 (as stated): when update is called with dt greater than the maximum
\* timestep, velocities and positions are integrated with min(dt, max_timestep())
\* and not with the dt passed in.
C2_TimestepClamped ==
    [][\A i \in Particles :
          (pc = "integrate" /\ i \in pending /\ i \notin pending')
              => IntegratedWith(i, Min2(dt, maxTimestep))]_vars

\* C3 (as stated): constructing the simulator with a non-positive particle radius
\* or with degenerate world bounds ends in a single fatal error state, with no
\* fluid particles, boundary particles or grid left partially built.
C3_ConfigurationErrorDetected ==
    (pc # "new" /\ ~ValidConfig(scene)) =>
        /\ pc = "fatal"
        /\ Len(fluidPositions) = 0
        /\ Len(boundaryPositions) = 0
        /\ fluidGrid = GridInit(Box(Zero3, Zero3), 1)

\* |g|, for the gravities of the scenes (which lie along an axis)
GravityNorm(g) == Abs(g[1]) + Abs(g[2]) + Abs(g[3])

\* 0.25 h / (m |g|) in microseconds: a length unit per millisecond^2 is 10 m/s^2,
\* so it is 0.25 * (h * 10^-5) / (m * 10^-6 * 10 * |g|) s = 250000 * h / (m * |g|) us
GravityTimestepFor(h, m, g) == FloorDiv(250000 * h, m * GravityNorm(g))

\* C4 (as stated): max_timestep() returns
\* min(0.25 h / (m |g|), 0.4 h / (cs (1 + 0.6 nu)), 0.001).
C4_MaxTimestepIsCflMinimum ==
    (pc # "new" /\ ValidConfig(scene)) =>
        maxTimestep = Min2(Min2(GravityTimestepFor(kernelRadius, particleMass, gravity),
                                SoundTimestep(kernelRadius)),
                           MaxTimestepClamp)

gCounts == Counts(gBox, gRadius)

\* the lattice points of [0..nx] x [0..ny] x [0..nz] with a coordinate at 0 or at
\* its maximum
SurfaceLattice(n) ==
    {p \in (0..n[1]) \X (0..n[2]) \X (0..n[3]) :
        \E a \in Axes : p[a] = 0 \/ p[a] = n[a]}

SurfaceCount(n) ==
      2 * ((n[1] - 1) * (n[2] - 1) + (n[1] - 1) * (n[3] - 1) + (n[2] - 1) * (n[3] - 1))
    + 4 * ((n[1] - 1) + (n[2] - 1) + (n[3] - 1))
    + 8

SeqRange(s) == {s[k] : k \in 1..Len(s)}

\* C5: for a box whose per-axis counts are all at least 1, the generator emits
\* every surface lattice point exactly once and no other point, so the count is
\* 2((nx-1)(ny-1)+(nx-1)(nz-1)+(ny-1)(nz-1)) + 4((nx-1)+(ny-1)+(nz-1)) + 8, which
\* is 602 for nx = ny = nz = 10.
C5_BoxParticleCount ==
    (gCalled /\ \A a \in Axes : gCounts[a] >= 1) =>
        /\ SeqRange(gResult.positions) = SurfaceLattice(gCounts)
        /\ Cardinality(SeqRange(gResult.positions)) = Len(gResult.positions)
        /\ Len(gResult.positions) = SurfaceCount(gCounts)
        /\ Len(gResult.normals) = Len(gResult.positions)
        /\ (gCounts = <<10, 10, 10>> => Len(gResult.positions) = 602)

C5_Witness ==
    /\ gCalled
    /\ gCounts = <<10, 10, 10>>
    /\ Len(gResult.positions) = 602

\* The sign of component a of every returned normal, on the axes whose count is
\* not zero: `atMin` at lattice index 0, `atMax` at index n, 0 strictly between.
NormalSigns(atMin, atMax) ==
    \A k \in 1..Len(gResult.positions) : \A a \in Axes :
        LET i == gResult.positions[k][a]
            c == gResult.normals[k][a]
            s == IF c > 0 THEN 1 ELSE IF c < 0 THEN -1 ELSE 0
        IN  gCounts[a] # 0 =>
                /\ i = 0 => s = atMin
                /\ i = gCounts[a] => s = atMax
                /\ i \notin {0, gCounts[a]} => s = 0

\* C6 (as amended): every normal returned by generateSurfaceParticles(box, r_p)
\* points outward: at the minimum side of an axis its component on that axis is
\* negative, at the maximum side positive, and it is zero on the axes where the
\* sample lies strictly between the two sides.
C6_NormalsPointOutward == gCalled => NormalSigns(-1, 1)

\* C6 (as stated): every returned normal points inward (positive component at
\* the minimum side, negative at the maximum side).
C6_NormalsPointInward == gCalled => NormalSigns(1, -1)

C6_Witness ==
    /\ gCalled
    /\ \A a \in Axes : gCounts[a] >= 2
    /\ \E k \in 1..Len(gResult.positions) :
          /\ gResult.positions[k] = <<1, 1, 0>>
          /\ gResult.normals[k] = <<0, 0, -1>>
    /\ \E k \in 1..Len(gResult.positions) :
          /\ gResult.positions[k] = <<gCounts[1], 0, 1>>
          /\ gResult.normals[k] = <<1, -1, 0>>

\* Whenever update() is in a stage, every task of the stage before it has
\* finished for all i: its outputs have all been written in this call.
AllWritten(arrays) ==
    \A array \in arrays : \A i \in Particles : Entry(array, i) \in written

StageInputsReady ==
    /\ pc \in {"normals", "forces", "integrate", "collide"}
          => AllWritten({"densities", "pressures"})
    /\ pc \in {"forces", "integrate", "collide"} => AllWritten({"normals"})
    /\ pc \in {"integrate", "collide"} => AllWritten({"forces"})
    /\ pc = "collide" => AllWritten({"velocities", "positions"})
    /\ pc \notin ParallelStages => pending = {}

\* each change of stage is to the next of the six stages, in their order
StageOrderKept ==
    pc' # pc =>
        \/ pc = "new" /\ pc' = "idle"
        \/ pc = "idle" /\ pc' = Stages[1]
        \/ \E k \in 1..(Len(Stages) - 1) : pc = Stages[k] /\ pc' = Stages[k + 1]
        \/ pc = Stages[Len(Stages)] /\ pc' = "idle"

\* C7: every call of update runs the six stages in the order grid update,
\* density/pressure, normals, forces, integrate, collide, and no per-particle task
\* of a stage starts before all per-particle tasks of the previous stage have
\* finished for all i.
C7_StageOrderAndBarriers == [](StageInputsReady) /\ [][StageOrderKept]_vars

\* a call of update has run to its end on two particles
C7_Witness ==
    /\ pc = "idle"
    /\ steps = MaxSteps
    /\ Len(fluidPositions) = 2
    /\ AllWritten({"densities", "pressures", "normals", "forces", "velocities",
                   "positions"})

\* C8 (as stated): in each data-parallel stage the task for particle i writes only
\* array entries of index i, so no task reads an array entry that a sibling task
\* of the same stage writes.
C8_NoCrossParticleWrites ==
    pc \in ParallelStages =>
        /\ \A i \in Particles : \A e \in writes[i] : e[2] = i
        /\ \A i \in Particles : \A k \in Particles \ {i} : writes[i] \cap reads[k] = {}

\* the walls particle position p lies outside of: <<axis, "min" or "max">>
WallsBroken(p) ==
    {<<a, "min">> : a \in {b \in Axes : p[b] < bounds.min[b]}}
        \cup {<<a, "max">> : a \in {b \in Axes : p[b] > bounds.max[b]}}

\* what the Collision stage does with particle i
CollisionResponse(i) ==
    LET p == fluidPositions[i]
        v == fluidVelocities[i]
    IN  /\ Inside(p, bounds) => fluidPositions'[i] = p /\ fluidVelocities'[i] = v
        /\ \A w \in WallsBroken(p) :
              WallsBroken(p) = {w} =>
                  LET a == w[1]
                  IN  /\ fluidPositions'[i][a] =
                            (IF w[2] = "min" THEN bounds.min[a] ELSE bounds.max[a])
                      /\ 2 * fluidVelocities'[i][a] = -v[a]
                      /\ \A b \in Axes \ {a} :
                            /\ fluidPositions'[i][b] = p[b]
                            /\ fluidVelocities'[i][b] = v[b]

\* C9: the collision stage moves a particle that lies outside exactly one wall by
\* depth d > 0 by n * d onto that wall, replaces the velocity component along n by
\* -0.5 times its value, leaves the tangential components of velocity and position
\* unchanged, and leaves every particle inside the bounds entirely unchanged.
C9_CollisionResponse ==
    [][pc = "collide" => \A i \in Particles : CollisionResponse(i)]_vars

\* the collision stage has run on a particle that had moved out through exactly
\* one wall, and which it put back onto that wall with a velocity away from it,
\* and on a particle inside the bounds, which it left where it was
C9_Witness ==
    /\ pc = "idle"
    /\ steps > 0
    /\ \E i \in Particles : \E w \in WallsBroken(entryPositions[i]) :
          /\ WallsBroken(entryPositions[i]) = {w}
          /\ fluidPositions[i] # entryPositions[i]
          /\ WallsBroken(fluidPositions[i]) = {}
          /\ fluidVelocities[i][w[1]] # 0
    /\ \E i \in Particles :
          /\ Inside(entryPositions[i], bounds)
          /\ fluidPositions[i] = entryPositions[i]

\* C10 (as stated): if two distinct fluid particles have exactly equal positions at
\* the start of the force stage, then at the end of the force stage their
\* positions differ, under every interleaving of the per-particle force tasks.
C10_CoincidentParticlesSeparated ==
    (pc = "forces" /\ pending = {}) =>
        \A i \in Particles : \A j \in Particles \ {i} :
            entryPositions[i] = entryPositions[j] => fluidPositions[i] # fluidPositions[j]

\* the arrays update() derives from the positions and velocities, which the
\* grid update does not permute
DerivedArrays == {"densities", "pressures", "normals", "forces"}

\* the update call that computed entry e of _fluidDensities, _fluidPressures or
\* _fluidNormals (a force is a vector: it carries no such stamp)
StampOf(e) ==
    CASE e[1] = "densities" -> fluidDensities[e[2]]
      [] e[1] = "pressures" -> fluidPressures[e[2]]
      [] e[1] = "normals"   -> fluidNormals[e[2]]

\* C11: in every step, each density, pressure, normal and force entry that a
\* task of a stage has read, for its own particle or for a neighbour, was written
\* in this step by an earlier stage (not by a sibling task of the running stage),
\* and the value it holds is the one this step computed.
C11_DerivedWrittenBeforeRead ==
    pc \in ParallelStages =>
        \A i \in Particles : \A e \in reads[i] :
            e[1] \in DerivedArrays =>
                /\ e \in written
                /\ \A k \in Particles : e \notin writes[k]
                /\ e[1] # "forces" => StampOf(e) = steps

\* in a step after the first, whose grid update exchanged two particles, a force
\* task has read the density, pressure and normal of its neighbour
C11_Witness ==
    /\ pc = "forces"
    /\ steps >= 2
    /\ gridOrder = <<2, 1>>
    /\ \E i \in Particles : \E j \in Particles \ {i} :
          {Entry("densities", j), Entry("pressures", j), Entry("normals", j)}
              \subseteq reads[i]

\* frac(n)
Frac(n) == n % SeedDenominator

\* C12 (as stated): for a triangle with expected seed count n, the mesh generator
\* emits floor(n) samples and one additional sample only when the draw u in
\* [0, 1) satisfies u < frac(n); when n is an integer it emits exactly n samples.
C12_MeshSeedCount ==
    mSeeded.done =>
        /\ mSeeded.samples =
              ni(mSeeded.n) + (IF mSeeded.u < Frac(mSeeded.n) THEN 1 ELSE 0)
        /\ Frac(mSeeded.n) = 0 => mSeeded.samples * SeedDenominator = mSeeded.n

\* v . n, for the inward normal n of wall w
InwardSpeed(v, w) == IF w[2] = "min" THEN v[w[1]] ELSE 0 - v[w[1]]

\* C13 (as stated): after the collision stage of any step, no particle that was
\* projected onto a wall has a velocity component pointing out of the world box
\* through that wall: v . n >= 0 for the wall's inward normal n.
C13_NoOutwardVelocityAfterCollision ==
    (pc = "idle" /\ steps > 0) =>
        \A i \in Particles : \A w \in WallsBroken(entryPositions[i]) :
            InwardSpeed(fluidVelocities[i], w) >= 0

====
